---- MODULE Spec2Model ----
(***************************************************************************)
(* Model of Project3/Part-I/virtmem.c: the address-translation loop of a   *)
(* demand-paged virtual memory simulator (TLB, page table, frame pool,     *)
(* FIFO / LRU page replacement).                                           *)
(*                                                                         *)
(* The sizes are a small instance of the #defines of the source.  The      *)
(* relations among them are those of the source: PAGES and PAGE_SIZE are   *)
(* powers of two, PAGE_MASK = PAGES - 1, OFFSET_MASK = PAGE_SIZE - 1 =     *)
(* 2^OFFSET_BITS - 1, TLB_SIZE < FRAMES < PAGES and                        *)
(* FRAMES >= 2 * TLB_SIZE - 1.                                             *)
(***************************************************************************)
EXTENDS Integers, Sequences, FiniteSets, TLC

TLB_SIZE == 2
PAGES == 4
PAGE_MASK == 3
FRAMES == 3
PAGE_SIZE == 2
OFFSET_BITS == 1
OFFSET_MASK == 1

LOGICAL_MEMORY_SIZE == PAGES * PAGE_SIZE
PHYSICAL_MEMORY_SIZE == FRAMES * PAGE_SIZE

\* Number of values of an unsigned char (struct tlbentry, free_page).
UCHAR_RANGE == 256

\* Start value of leastRecent in get_least_recently_used_element.
LEAST_RECENT_INIT == 10000000

\* Longest input file explored, in lines.
MaxAddresses == 6
\* The input holds every address of the logical memory and this many
\* addresses below 0 and past its end.
ExtraAddresses == 1

\* The values of a signed char.
SignedChars == (0 - (UCHAR_RANGE \div 2))..((UCHAR_RANGE \div 2) - 1)

InputAddresses == (0 - ExtraAddresses)..(LOGICAL_MEMORY_SIZE - 1 + ExtraAddresses)

\* The content of a cell malloc returned and nobody wrote yet: no frame
\* number and not the -1 of dequeue.
Uninit == -2

Frames == 0..(FRAMES - 1)
Pages == 0..(PAGES - 1)

(***************************************************************************)
(* C integer operators on two's complement ints.  \div rounds down and %   *)
(* is never negative, as sign extension needs.                             *)
(***************************************************************************)
RECURSIVE BitAnd(_, _)
\* a & b, for b >= 0.
BitAnd(a, b) ==
    IF b = 0 THEN 0
    ELSE (a % 2) * (b % 2) + 2 * BitAnd(a \div 2, b \div 2)

RECURSIVE BitOr(_, _)
\* a | b, for a >= 0 and b >= 0.
BitOr(a, b) ==
    IF a = 0 THEN b
    ELSE IF b = 0 THEN a
    ELSE (IF a % 2 = 1 \/ b % 2 = 1 THEN 1 ELSE 0) + 2 * BitOr(a \div 2, b \div 2)

\* a >> n (arithmetic shift).
ShiftRight(a, n) == a \div (2 ^ n)

\* a << n.
ShiftLeft(a, n) == a * (2 ^ n)

\* Conversion of an int to unsigned char.
ToUChar(x) == x % UCHAR_RANGE

max(a, b) == IF a > b THEN a ELSE b

(***************************************************************************)
(* PageQueue: the circular queue of the FIFO policy.                       *)
(***************************************************************************)
initQueue(numberOfFrames) ==
    [queueArray |-> [i \in 0..(numberOfFrames - 1) |-> Uninit],
     size |-> 0,
     numberOfFrames |-> numberOfFrames,
     head |-> 0,
     tail |-> numberOfFrames - 1]

\* enqueue without its size++.
enqueue_NoSize(q, data) ==
    IF ~(q.numberOfFrames = q.size)
    THEN LET t == (q.tail + 1) % q.numberOfFrames
         IN  [q EXCEPT !.tail = t, !.queueArray[t] = data]
    ELSE q

\* The queue after enqueue(queue, data).
enqueue(q, data) ==
    IF ~(q.numberOfFrames = q.size)
    THEN LET t == (q.tail + 1) % q.numberOfFrames
         IN  [q EXCEPT !.tail = t, !.queueArray[t] = data, !.size = @ + 1]
    ELSE q

\* The newest entry taken in place of the oldest.
dequeue_Newest(q) ==
    IF ~(q.size = 0)
    THEN [element |-> q.queueArray[q.tail],
          queue |-> [q EXCEPT !.tail = (@ + q.numberOfFrames - 1) % q.numberOfFrames,
                              !.size = @ - 1]]
    ELSE [element |-> -1, queue |-> q]

\* dequeue(queue): the value returned and the queue afterwards.
dequeue(q) ==
    IF ~(q.size = 0)
    THEN [element |-> q.queueArray[q.head],
          queue |-> [q EXCEPT !.head = (@ + 1) % q.numberOfFrames, !.size = @ - 1]]
    ELSE [element |-> -1, queue |-> q]

(***************************************************************************)
(* LRU: recentUsages[f] is the time_count of the last translation that     *)
(* used frame f.                                                           *)
(***************************************************************************)
RECURSIVE LruScan(_, _, _, _)
\* The for loop of get_least_recently_used_element from index i on.
LruScan(ru, i, leastRecent, leastRecentUsedElementIndex) ==
    IF i < FRAMES
    THEN IF ru[i] < leastRecent
         THEN LruScan(ru, i + 1, ru[i], i)
         ELSE LruScan(ru, i + 1, leastRecent, leastRecentUsedElementIndex)
    ELSE leastRecentUsedElementIndex

get_least_recently_used_element(ru) == LruScan(ru, 0, LEAST_RECENT_INIT, 0)

(***************************************************************************)
(* TLB: a circular array; tlbindex counts the inserts.                     *)
(***************************************************************************)
RECURSIVE TlbScan(_, _, _, _)
\* The for loop of search_tlb from index i on.
TlbScan(t, tidx, i, logical_page) ==
    IF i < tidx
    THEN IF t[i % TLB_SIZE].logical = logical_page
         THEN t[i % TLB_SIZE].physical
         ELSE TlbScan(t, tidx, i + 1, logical_page)
    ELSE -1

search_tlb(t, tidx, logical_page) ==
    TlbScan(t, tidx, max(tidx - TLB_SIZE, 0), ToUChar(logical_page))

\* The slot after the one of tlbindex written.
add_to_tlb_NextSlot(t, tidx, logical, physical) ==
    [tlb |-> [t EXCEPT ![(tidx + 1) % TLB_SIZE] =
                 [logical |-> ToUChar(logical), physical |-> ToUChar(physical)]],
     tlbindex |-> tidx + 1]

\* The TLB array and tlbindex after add_to_tlb(logical, physical).
add_to_tlb(t, tidx, logical, physical) ==
    [tlb |-> [t EXCEPT ![tidx % TLB_SIZE] =
                 [logical |-> ToUChar(logical), physical |-> ToUChar(physical)]],
     tlbindex |-> tidx + 1]

(***************************************************************************)
(* The state of main.                                                      *)
(***************************************************************************)
VARIABLES
    rp,               \* atoi(argv[4]): 0 is FIFO, anything else LRU
    backing,          \* the memory-mapped backing file
    input_length,     \* the number of lines of the input file
    lines_read,       \* the lines of it fgets has returned
    tlb,
    tlbindex,
    pagetable,
    main_memory,
    queue,
    recentUsages,
    free_page,
    time_count,
    total_addresses,
    tlb_hits,
    page_faults,
    pc,               \* "loop" while fgets returns lines, then "done"
    \* the locals of the last iteration of the while loop
    logical_address,
    offset,
    logical_page,
    physical_page,
    physical_address,
    value,
    \* history of the run, written by no statement of the source
    path,             \* the branch the last iteration took
    table_hits,       \* iterations that missed the TLB and hit the page table
    selection,        \* the call of dequeue / get_least_recently_used_element
                      \* of the last iteration, if it made one
    enqueue_full,     \* the last iteration called enqueue on a full queue
    loaded_at,        \* per frame, the time_count of its last memcpy (0: none)
    loaded_page,      \* per frame, the page of its last memcpy (-1: none)
    unbound,          \* the pages the last iteration set to -1 in the page table
    inserted          \* the calls of add_to_tlb so far, in order

vars ==
    <<rp, backing, tlb, tlbindex, pagetable, main_memory, queue, recentUsages,
      free_page, time_count, total_addresses, tlb_hits, page_faults, pc,
      logical_address, offset, logical_page, physical_page, physical_address,
      value, path, table_hits, selection, enqueue_full, loaded_at,
      input_length, lines_read, loaded_page, unbound, inserted>>

\* Two backing files: every byte different, one with negative bytes.
BackingImages ==
    {[a \in 0..(LOGICAL_MEMORY_SIZE - 1) |-> a + 1],
     [a \in 0..(LOGICAL_MEMORY_SIZE - 1) |-> 0 - (a + 1)]}

NoSelection ==
    [invoked |-> FALSE, victim |-> -1, queue_size |-> 0,
     recent |-> [f \in Frames |-> -1], loaded |-> [f \in Frames |-> 0],
     pages |-> [f \in Frames |-> -1]]

Init ==
    /\ rp \in {0, 1}
    /\ backing \in BackingImages
    /\ input_length \in 0..MaxAddresses
    /\ lines_read = 0
    /\ tlb = [i \in 0..(TLB_SIZE - 1) |-> [logical |-> 0, physical |-> 0]]
    /\ tlbindex = 0
    /\ pagetable = [p \in Pages |-> -1]
    /\ main_memory = [a \in 0..(PHYSICAL_MEMORY_SIZE - 1) |-> 0]
    /\ queue = initQueue(FRAMES)
    /\ recentUsages = [f \in Frames |-> -1]
    /\ free_page = 0
    /\ time_count = 0
    /\ total_addresses = 0
    /\ tlb_hits = 0
    /\ page_faults = 0
    /\ pc = "loop"
    /\ logical_address = 0
    /\ offset = 0
    /\ logical_page = 0
    /\ physical_page = 0
    /\ physical_address = 0
    /\ value = 0
    /\ path = "none"
    /\ table_hits = 0
    /\ selection = NoSelection
    /\ enqueue_full = FALSE
    /\ loaded_at = [f \in Frames |-> 0]
    /\ loaded_page = [f \in Frames |-> -1]
    /\ unbound = {}
    /\ inserted = <<>>

\* int offset = logical_address & OFFSET_MASK;
SplitOffset(address) == BitAnd(address, OFFSET_MASK)

\* int logical_page = (logical_address >> OFFSET_BITS) & PAGE_MASK;
SplitPage(address) == BitAnd(ShiftRight(address, OFFSET_BITS), PAGE_MASK)

\* free_page <= FRAMES in place of free_page < FRAMES.
SelectFrame_OneMore ==
    IF free_page <= FRAMES
    THEN [physical_page |-> free_page,
          free_page |-> ToUChar(free_page + 1),
          queue |-> queue,
          invoked |-> FALSE]
    ELSE IF rp = 0
         THEN LET d == dequeue(queue)
              IN  [physical_page |-> d.element,
                   free_page |-> free_page,
                   queue |-> d.queue,
                   invoked |-> TRUE]
         ELSE [physical_page |-> get_least_recently_used_element(recentUsages),
               free_page |-> free_page,
               queue |-> queue,
               invoked |-> TRUE]

\* free_page without its ++.
SelectFrame_NoIncrement ==
    IF free_page < FRAMES
    THEN [physical_page |-> free_page,
          free_page |-> free_page,
          queue |-> queue,
          invoked |-> FALSE]
    ELSE IF rp = 0
         THEN LET d == dequeue(queue)
              IN  [physical_page |-> d.element,
                   free_page |-> free_page,
                   queue |-> d.queue,
                   invoked |-> TRUE]
         ELSE [physical_page |-> get_least_recently_used_element(recentUsages),
               free_page |-> free_page,
               queue |-> queue,
               invoked |-> TRUE]

\* The frame of a page fault: the next unallocated one, or the victim of
\* the replacement policy.  Reads free_page, queue and recentUsages as they
\* are when the iteration starts: nothing wrote them before this point.
SelectFrame ==
    IF free_page < FRAMES
    THEN [physical_page |-> free_page,
          free_page |-> ToUChar(free_page + 1),
          queue |-> queue,
          invoked |-> FALSE]
    ELSE IF rp = 0
         THEN LET d == dequeue(queue)
              IN  [physical_page |-> d.element,
                   free_page |-> free_page,
                   queue |-> d.queue,
                   invoked |-> TRUE]
         ELSE [physical_page |-> get_least_recently_used_element(recentUsages),
               free_page |-> free_page,
               queue |-> queue,
               invoked |-> TRUE]

\* memcpy from the frame's place in the backing file, not the page's.
CopyPage_FrameSource(mem, frame, page) ==
    [a \in DOMAIN mem |->
        IF frame * PAGE_SIZE <= a /\ a < frame * PAGE_SIZE + PAGE_SIZE
        THEN backing[frame * PAGE_SIZE + (a - frame * PAGE_SIZE)]
        ELSE mem[a]]

\* memcpy(main_memory + frame * PAGE_SIZE, backing + page * PAGE_SIZE, PAGE_SIZE)
CopyPage(mem, frame, page) ==
    [a \in DOMAIN mem |->
        IF frame * PAGE_SIZE <= a /\ a < frame * PAGE_SIZE + PAGE_SIZE
        THEN backing[page * PAGE_SIZE + (a - frame * PAGE_SIZE)]
        ELSE mem[a]]

RECURSIVE ClearScan(_, _, _)
\* The for loop over k that unbinds the first page bound to frame.
ClearScan(pt, k, frame) ==
    IF k < PAGES
    THEN IF pt[k] = frame
         THEN [pt EXCEPT ![k] = -1]
         ELSE ClearScan(pt, k + 1, frame)
    ELSE pt

\* The loop left out.
ClearOwner_None(pt, frame) == pt

ClearOwner(pt, frame) == ClearScan(pt, 0, frame)

\* The binding alone, the owner of the frame left bound.
BindPage_KeepOwner(pt, page, frame) == [pt EXCEPT ![page] = frame]

\* pagetable[logical_page] = physical_page, after the owner is unbound.
BindPage(pt, page, frame) == [ClearOwner(pt, frame) EXCEPT ![page] = frame]

\* recentUsages[physical_page]++ in place of the time stamp.
RecordUse_Count(q, frame, now) ==
    IF rp = 0
    THEN [queue |-> enqueue(q, frame), recentUsages |-> recentUsages]
    ELSE [queue |-> q, recentUsages |-> [recentUsages EXCEPT ![frame] = @ + 1]]

\* if (rp == 0) enqueue(queue, physical_page);
\* else recentUsages[physical_page] = time_count;
\* q is the queue after the dequeue of this iteration, now is time_count.
RecordUse(q, frame, now) ==
    IF rp = 0
    THEN [queue |-> enqueue(q, frame), recentUsages |-> recentUsages]
    ELSE [queue |-> q, recentUsages |-> [recentUsages EXCEPT ![frame] = now]]

\* The shift by PAGE_SIZE in place of OFFSET_BITS.
PhysicalAddress_PageSize(frame, off) == BitOr(ShiftLeft(frame, PAGE_SIZE), off)

\* int physical_address = (physical_page << OFFSET_BITS) | offset;
PhysicalAddress(frame, off) == BitOr(ShiftLeft(frame, OFFSET_BITS), off)

\* The read without the offset.
ReadValue_NoOffset(mem, frame, off) ==
    IF frame * PAGE_SIZE \in DOMAIN mem
    THEN {mem[frame * PAGE_SIZE]}
    ELSE SignedChars

\* signed char value = main_memory[physical_page * PAGE_SIZE + offset];
\* The values the read can give: the byte, or any byte when the index is
\* outside main_memory (undefined behaviour).
ReadValue(mem, frame, off) ==
    IF frame * PAGE_SIZE + off \in DOMAIN mem
    THEN {mem[frame * PAGE_SIZE + off]}
    ELSE SignedChars

\* page_faults++ on every TLB miss.
CountPageFault_EveryMiss(branch) ==
    IF branch # "tlb_hit" THEN page_faults + 1 ELSE page_faults

\* page_faults++ in the page-fault branch.
CountPageFault(branch) ==
    IF branch = "page_fault" THEN page_faults + 1 ELSE page_faults

\* tlb_hits++ in the TLB-hit branch.
CountTlbHit(branch) ==
    IF branch = "tlb_hit" THEN tlb_hits + 1 ELSE tlb_hits

\* total_addresses++ on a TLB miss alone.
CountAddress_Misses(branch) ==
    IF branch # "tlb_hit" THEN total_addresses + 1 ELSE total_addresses

\* total_addresses++ at the head of the loop body, whatever the branch.
CountAddress(branch) == total_addresses + 1

\* add_to_tlb in the page-fault branch alone.
InsertTlb_FaultOnly(branch, page, frame) ==
    IF branch = "page_fault"
    THEN add_to_tlb(tlb, tlbindex, page, frame)
    ELSE [tlb |-> tlb, tlbindex |-> tlbindex]

\* add_to_tlb after the if / else, a TLB hit included.
InsertTlb_Always(branch, page, frame) == add_to_tlb(tlb, tlbindex, page, frame)

\* add_to_tlb(logical_page, physical_page) at the end of the TLB-miss
\* branch, after a page-table hit as after a page fault.
InsertTlb(branch, page, frame) ==
    IF branch = "tlb_hit"
    THEN [tlb |-> tlb, tlbindex |-> tlbindex]
    ELSE add_to_tlb(tlb, tlbindex, page, frame)

(***************************************************************************)
(* One iteration of the while loop of main on the input line `address`.    *)
(* Iteration is the body of the loop once the lookups are made: page and   *)
(* off are the split address, branch the branch taken, sel the result of   *)
(* SelectFrame (used by a page fault alone), frame the physical_page the   *)
(* branch ends with.                                                       *)
(***************************************************************************)
Iteration(address, off, page, branch, sel, frame, mem, q, now) ==
    /\ time_count' = now
    /\ total_addresses' = CountAddress(branch)
    /\ lines_read' = lines_read + 1
    /\ logical_address' = address
    /\ offset' = off
    /\ logical_page' = page
    /\ tlb_hits' = CountTlbHit(branch)
    /\ page_faults' = CountPageFault(branch)
    /\ free_page' = IF branch = "page_fault" THEN sel.free_page ELSE free_page
    /\ main_memory' = mem
    /\ pagetable' =
          IF branch = "page_fault" THEN BindPage(pagetable, page, frame) ELSE pagetable
    /\ tlb' = InsertTlb(branch, page, frame).tlb
    /\ tlbindex' = InsertTlb(branch, page, frame).tlbindex
    /\ queue' = RecordUse(q, frame, now).queue
    /\ recentUsages' = RecordUse(q, frame, now).recentUsages
    /\ physical_page' = frame
    /\ physical_address' = PhysicalAddress(frame, off)
    /\ value' \in ReadValue(mem, frame, off)
    /\ path' = branch
    /\ table_hits' = IF branch = "table_hit" THEN table_hits + 1 ELSE table_hits
    /\ selection' =
          IF branch = "page_fault" /\ sel.invoked
          THEN [invoked |-> TRUE, victim |-> frame, queue_size |-> queue.size,
                recent |-> recentUsages, loaded |-> loaded_at,
                pages |-> loaded_page]
          ELSE NoSelection
    /\ enqueue_full' = (rp = 0 /\ q.size = q.numberOfFrames)
    /\ loaded_at' =
          IF branch = "page_fault" THEN [loaded_at EXCEPT ![frame] = now] ELSE loaded_at
    /\ loaded_page' =
          IF branch = "page_fault" THEN [loaded_page EXCEPT ![frame] = page]
          ELSE loaded_page
    /\ unbound' = {p \in Pages : pagetable[p] # -1 /\ pagetable'[p] = -1}
    /\ inserted' =
          IF tlbindex' = tlbindex THEN inserted
          ELSE Append(inserted, [logical |-> page, physical |-> frame])
    /\ UNCHANGED <<rp, backing, pc, input_length>>

\* The lookups of an iteration: the TLB, then the page table, then the
\* frame of a page fault with the page copied into it.
Lookup(address, page, tlb_frame, sel) ==
    CASE tlb_frame # -1 ->
            Iteration(address, SplitOffset(address), page, "tlb_hit", sel,
                      tlb_frame, main_memory, queue, time_count + 1)
      [] tlb_frame = -1 /\ pagetable[page] # -1 ->
            Iteration(address, SplitOffset(address), page, "table_hit", sel,
                      pagetable[page], main_memory, queue, time_count + 1)
      [] OTHER ->
            Iteration(address, SplitOffset(address), page, "page_fault", sel,
                      sel.physical_page,
                      CopyPage(main_memory, sel.physical_page, page),
                      sel.queue, time_count + 1)

Translate(address) ==
    /\ pc = "loop"
    /\ Lookup(address, SplitPage(address),
              search_tlb(tlb, tlbindex, SplitPage(address)), SelectFrame)

\* fgets returns NULL: the loop ends and the statistics are printed.
EndOfInput ==
    /\ pc = "loop"
    /\ lines_read = input_length
    /\ pc' = "done"
    /\ UNCHANGED <<rp, backing, tlb, tlbindex, pagetable, main_memory, queue,
                   recentUsages, free_page, time_count, total_addresses,
                   tlb_hits, page_faults, logical_address, offset, logical_page,
                   physical_page, physical_address, value, path, table_hits,
                   selection, enqueue_full, loaded_at, input_length,
                   lines_read, loaded_page, unbound, inserted>>

\* The runs on the input files of at most MaxAddresses lines (Init): fgets
\* returns the next line while there is one.
Next ==
    \/ /\ lines_read < input_length
       /\ \E address \in InputAddresses : Translate(address)
    \/ EndOfInput

Spec == Init /\ [][Next]_vars

(***************************************************************************)
(* The runs on long input files.  InitLate is the state of an LRU run      *)
(* after LateLines lines: the pages 0 .. FRAMES-1, one line each, then     *)
(* address 0 on every further line.  The first FRAMES lines fault and fill *)
(* the frames in order, line FRAMES+1 misses the TLB (page 0 left it),     *)
(* hits the page table and puts page 0 back into the TLB, and each line    *)
(* after it is a TLB hit that changes tlb_hits, the two counters of lines  *)
(* and recentUsages[0] only.  LateStateAt(n) is that state after n lines   *)
(* (n > FRAMES + 1); LateStateReached finds it in Spec for the n within    *)
(* MaxAddresses.                                                           *)
(***************************************************************************)
LateLines == LEAST_RECENT_INIT - 1

LateStateAt(n) ==
    /\ rp = 1
    /\ tlb = [i \in 0..(TLB_SIZE - 1) |->
                IF i = FRAMES % TLB_SIZE
                THEN [logical |-> 0, physical |-> 0]
                ELSE [logical |-> FRAMES - 1, physical |-> FRAMES - 1]]
    /\ tlbindex = FRAMES + 1
    /\ pagetable = [p \in Pages |-> IF p < FRAMES THEN p ELSE -1]
    /\ main_memory = [a \in 0..(PHYSICAL_MEMORY_SIZE - 1) |-> backing[a]]
    /\ queue = initQueue(FRAMES)
    /\ recentUsages = [f \in Frames |-> IF f = 0 THEN n ELSE f + 1]
    /\ free_page = FRAMES
    /\ time_count = n
    /\ total_addresses = n
    /\ tlb_hits = n - (FRAMES + 1)
    /\ page_faults = FRAMES
    /\ pc = "loop"
    /\ logical_address = 0
    /\ offset = 0
    /\ logical_page = 0
    /\ physical_page = 0
    /\ physical_address = 0
    /\ value = backing[0]
    /\ path = "tlb_hit"
    /\ table_hits = 1
    /\ selection = NoSelection
    /\ enqueue_full = FALSE
    /\ loaded_at = [f \in Frames |-> f + 1]
    /\ lines_read = n
    /\ loaded_page = [f \in Frames |-> f]
    /\ unbound = {}
    /\ inserted = [i \in 1..(FRAMES + 1) |->
                     IF i <= FRAMES
                     THEN [logical |-> i - 1, physical |-> i - 1]
                     ELSE [logical |-> 0, physical |-> 0]]

InitLate ==
    /\ backing \in BackingImages
    /\ input_length \in LateLines..(LateLines + MaxAddresses)
    /\ LateStateAt(LateLines)

NextLate ==
    \/ /\ lines_read < input_length
       /\ \E address \in InputAddresses : Translate(address)
    \/ EndOfInput

SpecLate == InitLate /\ [][NextLate]_vars

\* The runs that keep stepping: the loop waits for nothing, and fgets on a
\* file returns. Whether the loop ends does not turn on the bytes of the
\* backing file, so these runs map one image of it.
InitFair == Init /\ backing[0] > 0

FairSpec == InitFair /\ [][Next]_vars /\ WF_vars(Next)

\* Spec reaches LateStateAt(n) for the n it can count to.
LateStateReached == LateStateAt(MaxAddresses - 1)

\* One more line of address 0 leads from LateStateAt(n) to LateStateAt(n + 1).
LateStateStep ==
    [][(time_count > FRAMES + 1 /\ LateStateAt(time_count)
            /\ logical_address' = 0 /\ pc' = "loop")
          => (time_count' = time_count + 1 /\ LateStateAt(time_count)')]_vars

(***************************************************************************)
(* The properties.                                                         *)
(***************************************************************************)
Translated == path # "none"
Evicted == selection.invoked
BoundPages == {p \in Pages : pagetable[p] # -1}
PageBytes(p) == [o \in 0..(PAGE_SIZE - 1) |-> backing[p * PAGE_SIZE + o]]
FrameBytes(f) == [o \in 0..(PAGE_SIZE - 1) |-> main_memory[f * PAGE_SIZE + o]]

\* C1: no two distinct logical pages are bound to the same physical
\* frame, whatever the addresses translated and under FIFO as under LRU.
NoSharedFrame ==
    \A p, r \in Pages :
        (p # r /\ pagetable[p] # -1) => pagetable[p] # pagetable[r]

\* A victim was taken under LRU and its frame bound to the faulting page,
\* with all frames bound.
NoSharedFrameWitness ==
    /\ rp # 0
    /\ Evicted
    /\ pagetable[logical_page] = selection.victim
    /\ Cardinality(BoundPages) = FRAMES

\* C2: under FIFO the victim of a page fault is the frame whose page was
\* loaded the longest ago (first allocated, first evicted), whatever hits
\* came in between.
FifoVictimIsOldestLoaded ==
    (rp = 0 /\ Evicted) =>
        \A f \in Frames \ {selection.victim} :
            selection.loaded[selection.victim] < selection.loaded[f]

\* C3: under LRU every translation records the use of its frame, and the
\* victim of a page fault is the frame with the least last use, the lowest
\* such frame if several have it.
LruVictimIsLeastRecent ==
    /\ (rp # 0 /\ Translated) => recentUsages[physical_page] = time_count
    /\ (rp # 0 /\ Evicted) =>
          \A f \in Frames :
              /\ selection.recent[selection.victim] <= selection.recent[f]
              /\ f < selection.victim =>
                    selection.recent[selection.victim] < selection.recent[f]

\* An LRU victim that is not the frame loaded the longest ago: a use
\* after the load moved the eviction.
LruVictimWitness ==
    /\ rp # 0
    /\ Evicted
    /\ \E f \in Frames : selection.loaded[f] < selection.loaded[selection.victim]

\* C4: the frame a page is bound to holds the PAGE_SIZE bytes of that page
\* of the backing file.
FrameHoldsPage ==
    \A p \in Pages :
        pagetable[p] # -1 => FrameBytes(pagetable[p]) = PageBytes(p)

\* A frame was evicted and reloaded, and the byte read is the one of the
\* new page.
FrameHoldsPageWitness ==
    /\ Evicted
    /\ pagetable[logical_page] = physical_page
    /\ FrameBytes(physical_page) = PageBytes(logical_page)
    /\ FrameBytes(physical_page) # [o \in 0..(PAGE_SIZE - 1) |-> 0]
    /\ value = backing[logical_page * PAGE_SIZE + offset]

\* The TLB gave a frame for a page the page table does not bind.
StaleTlbHit == path = "tlb_hit" /\ pagetable[logical_page] = -1

\* C5: a TLB hit for a page P that the page table does not bind gives a
\* frame bound to another page Q, and the translation emits the byte of Q.
StaleTlbHitReadsOwner ==
    StaleTlbHit =>
        \E q \in Pages \ {logical_page} :
            /\ pagetable[q] = physical_page
            /\ value = backing[q * PAGE_SIZE + offset]

\* Such a hit happens: counted as a TLB hit, the byte is not the one of P.
StaleTlbHitWitness ==
    /\ StaleTlbHit
    /\ tlb_hits > 0
    /\ \E q \in Pages \ {logical_page} : pagetable[q] = physical_page
    /\ value # backing[logical_page * PAGE_SIZE + offset]

\* C6: the low OFFSET_BITS bits of the physical address are those of the
\* logical address and the bits above them are the frame number, on every
\* path.
OffsetPreserved ==
    Translated =>
        /\ physical_address % (2 ^ OFFSET_BITS) = logical_address % (2 ^ OFFSET_BITS)
        /\ physical_address \div (2 ^ OFFSET_BITS) = physical_page

\* A page-table hit on an address outside the logical memory, with an
\* offset and a frame that are not 0.
OffsetPreservedWitness ==
    /\ path = "table_hit"
    /\ logical_address \notin 0..(LOGICAL_MEMORY_SIZE - 1)
    /\ offset # 0
    /\ physical_page # 0

\* C7: page faults and TLB hits are at most the addresses translated, and
\* every address is a TLB hit, a page-table hit or a page fault.
CountersAccount ==
    /\ page_faults <= total_addresses
    /\ tlb_hits <= total_addresses
    /\ tlb_hits + table_hits + page_faults = total_addresses

\* A run with the three classes in it, ended.
CountersWitness ==
    /\ pc = "done"
    /\ tlb_hits > 0
    /\ table_hits > 0
    /\ page_faults > FRAMES

\* C8: at most FRAMES logical pages are bound in the page table.
AtMostFramesBound == Cardinality(BoundPages) <= FRAMES

\* FRAMES pages bound after a FIFO eviction, the evicted page not one of them.
AtMostFramesBoundWitness ==
    /\ rp = 0
    /\ Evicted
    /\ Cardinality(BoundPages) = FRAMES
    /\ page_faults > FRAMES

\* C9: under FIFO dequeue is called on a queue that is not empty and once
\* all frames are allocated only, and the frame of a page fault is in
\* 0 .. FRAMES-1.
DequeueNeverEmpty ==
    /\ (rp = 0 /\ Evicted) =>
          /\ selection.queue_size > 0
          /\ selection.victim # -1
          /\ free_page = FRAMES
    /\ (rp = 0 /\ path = "page_fault") => physical_page \in Frames

\* dequeue was called, for the second time in the run.
DequeueWitness ==
    /\ rp = 0
    /\ Evicted
    /\ page_faults = FRAMES + 2

\* C10: under FIFO enqueue is never called on a queue of FRAMES entries.
EnqueueNeverFull == rp = 0 => ~enqueue_full


\* C11: the run on a finite input terminates: it takes the lines one at a
\* time and in order, every line read is translated before the next is read,
\* and at the end total_addresses and the clock are the number of lines.
RunTerminates ==
    /\ [](lines_read = total_addresses /\ time_count = total_addresses)
    /\ <>(/\ pc = "done"
          /\ total_addresses = input_length
          /\ time_count = input_length)

RunTerminatesWitness ==
    /\ pc = "done"
    /\ input_length > FRAMES
    /\ total_addresses = input_length
    /\ time_count = input_length
    /\ page_faults > FRAMES
    /\ tlb_hits > 0

\* A step of the loop: one more line translated.
LineTranslated == lines_read' = lines_read + 1

\* C12: under FIFO a translation that is a TLB hit or a page-table hit
\* leaves the queue as it was (array, head, tail and size): the queue
\* changes on page faults only.
HitsLeaveQueue ==
    [][(rp = 0 /\ LineTranslated /\ path' \in {"tlb_hit", "table_hit"})
          => queue' = queue]_vars

\* The first FRAMES lines were page faults (FRAMES distinct pages) and no
\* frame was loaded again before the eviction in selection.
DistinctStart == selection.loaded = [f \in Frames |-> f + 1]

\* C13: under FIFO, when the first FRAMES lines name FRAMES distinct pages,
\* they fault and take the frames 0 .. FRAMES-1 in order, the next page
\* fault takes frame 0, and the page loaded first is not bound after it.
FifoFirstEviction ==
    /\ (rp = 0 /\ time_count = FRAMES /\ page_faults = FRAMES) =>
          \A f \in Frames :
              /\ loaded_at[f] = f + 1
              /\ pagetable[loaded_page[f]] = f
    /\ (rp = 0 /\ Evicted /\ DistinctStart) =>
          /\ selection.victim = 0
          /\ pagetable[logical_page] = 0
          /\ selection.pages[0] # logical_page
          /\ pagetable[selection.pages[0]] = -1

\* Such an eviction, with hits between the first FRAMES lines and it.
FifoFirstEvictionWitness ==
    /\ rp = 0
    /\ Evicted
    /\ DistinctStart
    /\ tlb_hits > 0
    /\ table_hits > 0
    /\ physical_page = 0
    /\ pagetable[selection.pages[0]] = -1

\* The inserts a probe can find: the last min(TLB_SIZE, n) of the n made.
RecentInserts == {n \in 1..Len(inserted) : n > Len(inserted) - TLB_SIZE}

\* The frame of the first of them, in the order of insertion, for page p.
ProbeOfInserts(p) ==
    IF \E n \in RecentInserts : inserted[n].logical = p
    THEN inserted[CHOOSE n \in RecentInserts :
                      /\ inserted[n].logical = p
                      /\ \A m \in RecentInserts :
                            inserted[m].logical = p => n <= m].physical
    ELSE -1

\* C14: the TLB is a FIFO of the inserts: the n-th insert is in slot
\* (n-1) mod TLB_SIZE, search_tlb finds a page if and only if one of the
\* last min(TLB_SIZE, n) inserts is for it and gives the frame of the first
\* of these; an older insert is never given, hit or not.
TlbIsFifo ==
    /\ tlbindex = Len(inserted)
    /\ \A n \in RecentInserts :
          /\ tlb[(n - 1) % TLB_SIZE].logical = inserted[n].logical
          /\ tlb[(n - 1) % TLB_SIZE].physical = inserted[n].physical
    /\ \A p \in Pages : search_tlb(tlb, tlbindex, p) = ProbeOfInserts(p)

\* A page was inserted, hit, and pushed out by TLB_SIZE later inserts: the
\* probe for it misses.
TlbIsFifoWitness ==
    /\ tlb_hits > 0
    /\ Len(inserted) > TLB_SIZE
    /\ \E n \in 1..Len(inserted) :
          /\ n \notin RecentInserts
          /\ search_tlb(tlb, tlbindex, inserted[n].logical) = -1
    /\ \E p \in Pages : search_tlb(tlb, tlbindex, p) # -1

\* C15: the k-th page fault, k <= FRAMES, takes frame k-1, calls neither
\* dequeue nor get_least_recently_used_element and unbinds no page; these
\* are called on later page faults only; free_page is at most FRAMES.
FreeFramesFirst ==
    /\ free_page <= FRAMES
    /\ free_page = (IF page_faults < FRAMES THEN page_faults ELSE FRAMES)
    /\ (path = "page_fault" /\ page_faults <= FRAMES) =>
          /\ physical_page = page_faults - 1
          /\ ~Evicted
          /\ unbound = {}
    /\ Evicted => page_faults > FRAMES

\* The last free frame given, after hits.
FreeFramesFirstWitness ==
    /\ path = "page_fault"
    /\ page_faults = FRAMES
    /\ physical_page = FRAMES - 1
    /\ free_page = FRAMES
    /\ tlb_hits > 0

\* C16: a translation that is a TLB hit or a page-table hit leaves the page
\* table, free_page, main_memory and page_faults as they were.
HitsLeaveFrames ==
    [][(LineTranslated /\ path' \in {"tlb_hit", "table_hit"})
          => UNCHANGED <<pagetable, free_page, main_memory, page_faults>>]_vars

\* A page-table hit and a TLB hit after an eviction.
HitsLeaveFramesWitness ==
    /\ path \in {"tlb_hit", "table_hit"}
    /\ table_hits > 0
    /\ tlb_hits > 0
    /\ page_faults > FRAMES
    /\ unbound = {}

\* C17, as stated: a page-table hit leaves the TLB and tlbindex as they
\* were.
TableHitLeavesTlb ==
    [][(LineTranslated /\ path' = "table_hit") => UNCHANGED <<tlb, tlbindex>>]_vars

\* C17, amended: every TLB miss, page-table hit or page fault, inserts the
\* page and its frame at slot tlbindex mod TLB_SIZE and counts the insert;
\* a TLB hit inserts nothing.
EveryMissInserts ==
    /\ tlbindex = table_hits + page_faults
    /\ Len(inserted) = table_hits + page_faults
    /\ path \in {"table_hit", "page_fault"} =>
          /\ tlb[(tlbindex - 1) % TLB_SIZE].logical = logical_page
          /\ tlb[(tlbindex - 1) % TLB_SIZE].physical = physical_page
          /\ inserted[Len(inserted)] =
                [logical |-> logical_page, physical |-> physical_page]

\* A page-table hit put its page back into the TLB.
EveryMissInsertsWitness ==
    /\ path = "table_hit"
    /\ tlbindex > TLB_SIZE
    /\ tlbindex > page_faults
    /\ search_tlb(tlb, tlbindex, logical_page) = pagetable[logical_page]

\* The slots search_tlb scans.
ValidSlots == {i \in 0..(TLB_SIZE - 1) : i < tlbindex}

RECURSIVE TlbScanBack(_, _, _, _)
\* The scan of the same slots from the newest to the oldest.
TlbScanBack(t, lowest, i, page) ==
    IF i >= lowest
    THEN IF t[i % TLB_SIZE].logical = page
         THEN t[i % TLB_SIZE].physical
         ELSE TlbScanBack(t, lowest, i - 1, page)
    ELSE -1

\* C18: no two valid entries of the TLB are for the same logical page, so
\* search_tlb gives the same whichever way it scans.
TlbPagesDistinct ==
    /\ \A i, j \in ValidSlots : i # j => tlb[i].logical # tlb[j].logical
    /\ \A p \in Pages :
          search_tlb(tlb, tlbindex, p) =
             TlbScanBack(tlb, max(tlbindex - TLB_SIZE, 0), tlbindex - 1, p)

\* A full TLB after reuse of its slots, two entries of it with the same
\* frame.
TlbPagesDistinctWitness ==
    /\ tlbindex > TLB_SIZE
    /\ tlb_hits > 0
    /\ \E i, j \in ValidSlots : i # j /\ tlb[i].physical = tlb[j].physical

\* C19: min(page_faults, FRAMES) pages are bound, every allocated frame is
\* bound to one page exactly, an eviction unbinds one page exactly, and the
\* page of a page fault is not bound before the fault binds it.
OneOwnerPerFrame ==
    /\ [](/\ Cardinality(BoundPages) =
                (IF page_faults < FRAMES THEN page_faults ELSE FRAMES)
          /\ \A f \in Frames :
                f < free_page => Cardinality({p \in Pages : pagetable[p] = f}) = 1
          /\ Evicted => Cardinality(unbound) = 1
          /\ (path = "page_fault" /\ ~Evicted) => unbound = {})
    /\ [][(LineTranslated /\ path' = "page_fault")
             => pagetable[logical_page'] = -1]_vars

\* The second eviction of a run.
OneOwnerPerFrameWitness ==
    /\ Evicted
    /\ Cardinality(unbound) = 1
    /\ logical_page \notin unbound
    /\ Cardinality(BoundPages) = FRAMES
    /\ page_faults = FRAMES + 2

\* C20: under LRU the frames used have distinct time stamps, none above
\* time_count, and get_least_recently_used_element is called when no frame
\* has -1 left: the least stamp is in one frame only.
LruStampsDistinct ==
    rp # 0 =>
        /\ \A f, g \in Frames :
              (f # g /\ recentUsages[f] # -1) => recentUsages[f] # recentUsages[g]
        /\ \A f \in Frames : recentUsages[f] <= time_count
        /\ Evicted =>
              /\ \A f \in Frames : selection.recent[f] # -1
              /\ \A f, g \in Frames :
                    f # g => selection.recent[f] # selection.recent[g]

\* An LRU eviction after hits moved the stamps.
LruStampsDistinctWitness ==
    /\ rp # 0
    /\ Evicted
    /\ tlb_hits > 0
    /\ table_hits > 0
    /\ \E f \in Frames : selection.recent[f] > selection.loaded[f]

====
